---- MODULE Spec2Model ----
(***************************************************************************)
(* Model of internal/multirun.py: the orchestrator that runs a batch of    *)
(* commands either all at once (_perform_concurrently) or one after the    *)
(* other (_perform_serially) and reduces their exit codes to one exit      *)
(* status.  The orchestrator is one thread of control (pc, i); every child *)
(* process is an independent OS process that exits on its own schedule.    *)
(* A KeyboardInterrupt may be raised in the orchestrator between any two   *)
(* steps.  Child output is modelled as text that decodes without error.    *)
(***************************************************************************)
EXTENDS Integers, Sequences, FiniteSets, TLC

\* ---- bounds ------------------------------------------------------------
MaxCmds == 3
MaxJobs == 2

\* ---- value sets --------------------------------------------------------
ExitCodes == {0, 1}
Whitespace == {" "}
Outputs == { <<>>, <<" ">>, <<" ", "a", " ">> }
UncaughtInterruptStatus == {1, 130}

VARIABLES
    n,              \* len(commands)
    jobs,           \* instructions["jobs"]
    print_command,  \* instructions["print_command"]
    buffer_output,  \* instructions["buffer_output"]
    keep_going,     \* instructions["keep_going"]
    pc,             \* position of the orchestrator
    i,              \* index of the current loop (1-based)
    status,         \* per command: state of its OS process
    exitcode,       \* per command: exit code of the OS process once exited
    output,         \* per command: what the child wrote to its captured stdout
    reaped,         \* per command: Popen.returncode is not None
    console,        \* lines printed by the orchestrator itself
    success,        \* local variable success of the scheduler
    result,         \* value returned by the scheduler
    exit_status,    \* exit status of the orchestrator process
    raised,         \* exception that escaped _main, if any
    interrupted,    \* a KeyboardInterrupt has been delivered
    launchSeq,      \* commands in the order their process was started
    outOfOrder,     \* some child exited while an earlier one still ran
    environ,        \* os.environ of the orchestrator
    cmdenv,         \* per command: Command.env
    childenv        \* per command: the env its process was started with

vars == << n, jobs, print_command, buffer_output, keep_going, pc, i, status,
           exitcode, output, reaped, console, success, result, exit_status,
           raised, interrupted, launchSeq, outOfOrder, environ, cmdenv,
           childenv >>

envs == << environ, cmdenv, childenv >>

config == << n, jobs, print_command, buffer_output, keep_going >>
procs  == << status, exitcode, output, reaped, outOfOrder >>

Cmds == 1..n

\* ---- pure helpers ------------------------------------------------------

\* variant of Parallel: only a job count of one is serial
ParallelUnlessOne(j) == j # 1

\* parallel = instructions["jobs"] == 0
Parallel(j) == j = 0

\* sys.exit(0 if success else 1)
ExitStatus(s) == IF s THEN 0 ELSE 1

\* stdout=PIPE, stderr=STDOUT are passed iff buffer_output
Captured == Parallel(jobs) /\ buffer_output

RECURSIVE LStrip(_)
LStrip(s) == IF s # <<>> /\ Head(s) \in Whitespace THEN LStrip(Tail(s)) ELSE s

RECURSIVE RStrip(_)
RStrip(s) == IF s # <<>> /\ s[Len(s)] \in Whitespace
             THEN RStrip(SubSeq(s, 1, Len(s) - 1)) ELSE s

\* str.strip(): leading and trailing whitespace removed
Strip(s) == RStrip(LStrip(s))

\* variants of Fold: the test inverted; the last exit code overwriting the rest
FoldInverted(s, rc) == IF rc = 0 THEN FALSE ELSE s
FoldLastWins(s, rc) == rc = 0

\* if process.returncode != 0: success = False
Fold(s, rc) == IF rc # 0 THEN FALSE ELSE s

\* variant of ProcessAt: the list is walked from its end
ProcessAtReversed(k, m) == m + 1 - k

\* for command, process in processes: the k-th iteration visits entry k
ProcessAt(k, m) == k

\* variants of StopOnFailure: a failure never stops; a failure always stops
StopOnFailureNever(kg) == FALSE
StopOnFailureAlways(kg) == TRUE

\* except CalledProcessError: keep_going records the failure, else return False
StopOnFailure(kg) == ~kg

\* variant of StopOnInterrupt: an interruption is handled like a failed command
StopOnInterruptUnlessKeepGoing(kg) == ~kg

\* except KeyboardInterrupt: return False, whatever keep_going is
StopOnInterrupt(kg) == TRUE

\* variant of LaunchesDone: waiting starts once the first command is launched
LaunchesDoneAfterFirst(k, m) == k > 1 \/ k > m

\* the list comprehension at lines 49-53 ends when every command was launched
LaunchesDone(k, m) == k > m

\* variant of PrintsTag: the tag is printed whenever print_command is set
PrintsTagUnbuffered(pcmd, buf) == pcmd

\* if print_command and buffer_output: print(command.tag)
PrintsTag(pcmd, buf) == pcmd /\ buf

\* variant of ShouldPrint: output is printed for successful commands only
ShouldPrintOnSuccess(out, rc) == out # <<>> /\ rc = 0

\* if stdout: print(...), whatever process.returncode is
ShouldPrint(out, rc) == out # <<>>

\* variant of RecordFailure: the failure is not recorded
RecordFailureForgets(s) == s

\* keep_going: success = False
RecordFailure(s) == FALSE

\* variant of NextIndex: the loop does not advance
NextIndexStuck(k) == k

\* for command in commands: the next iteration takes the next command
NextIndex(k) == k + 1

\* variant of WaitReturns: the call returns without waiting for the child
WaitReturnsAtOnce(st) == TRUE

\* check_call (block=True) returns only when the child has exited
WaitReturns(st) == st = "exited"

\* variant of KillCode: kill overwrites the exit code of an exited child
KillCodeOverwrites(alive, code) == -9

\* process.kill(): SIGKILL ends a live child; an exited child keeps its code
KillCode(alive, code) == IF alive THEN -9 ELSE code

Alive(p) == status[p] \in {"running", "blocked"}

\* ---- environment mappings ----------------------------------------------
EnvNames == {"A", "B"}
EnvValues == {"x", "y"}
EnvMaps == UNION { [D -> EnvValues] : D \in SUBSET EnvNames }
NoEnv == [k \in {} |-> "x"]

\* variant of LaunchEnv: ambient values win over the command's own
LaunchEnvAmbientWins(amb, over) ==
    [k \in (DOMAIN amb) \cup (DOMAIN over) |->
        IF k \in DOMAIN amb THEN amb[k] ELSE over[k]]

\* env = dict(os.environ); env.update(command.env)
LaunchEnv(amb, over) ==
    [k \in (DOMAIN amb) \cup (DOMAIN over) |->
        IF k \in DOMAIN over THEN over[k] ELSE amb[k]]

\* dict(os.environ) is a copy: update() does not reach os.environ
AmbientAfterLaunch(amb, over) == amb

\* the environment of the default runs: one ambient variable, which the
\* first command overrides, the later commands adding another
DefaultEnviron == "A" :> "x"
DefaultCmdEnv(p) == IF p = 1 THEN "A" :> "y" ELSE "B" :> "y"

\* ---- initial state -----------------------------------------------------
Init ==
    /\ n \in 0..MaxCmds
    /\ jobs \in 0..MaxJobs
    /\ print_command \in BOOLEAN
    /\ buffer_output \in BOOLEAN
    /\ keep_going \in BOOLEAN
    /\ pc = "main"
    /\ i = 1
    /\ status = [p \in Cmds |-> "pending"]
    /\ exitcode = [p \in Cmds |-> 0]
    /\ output = [p \in Cmds |-> <<>>]
    /\ reaped = [p \in Cmds |-> FALSE]
    /\ console = <<>>
    /\ success = FALSE
    /\ result = FALSE
    /\ exit_status = 0
    /\ raised = "none"
    /\ interrupted = FALSE
    /\ launchSeq = <<>>
    /\ outOfOrder = FALSE
    /\ environ = DefaultEnviron
    /\ cmdenv = [p \in Cmds |-> DefaultCmdEnv(p)]
    /\ childenv = [p \in Cmds |-> NoEnv]

\* ---- _main -------------------------------------------------------------

\* _main picks the scheduler; _perform_serially starts with success = True
Dispatch ==
    /\ pc = "main"
    /\ IF Parallel(jobs)
       THEN pc' = "launch" /\ UNCHANGED success
       ELSE pc' = "stag" /\ success' = TRUE
    /\ i' = 1
    /\ UNCHANGED << config, envs, procs, console, result, exit_status, raised,
                    interrupted, launchSeq >>

\* sys.exit(0 if success else 1)
SysExit ==
    /\ pc = "returned"
    /\ pc' = "exited"
    /\ exit_status' = ExitStatus(result)
    /\ UNCHANGED << config, envs, procs, i, console, success, result, raised,
                    interrupted, launchSeq >>

\* an exception nobody catches ends the interpreter
Uncaught(exc, st) ==
    /\ pc' = "exited"
    /\ raised' = exc
    /\ exit_status' = st


\* ---- _run_command ------------------------------------------------------

\* subprocess.Popen / check_call start the child; the executable may be
\* missing or not startable (OSError, or SystemExit when bash.exe is absent)
Started(p) ==
    /\ status' = [status EXCEPT ![p] = "running"]
    /\ launchSeq' = Append(launchSeq, p)
    /\ childenv' = [childenv EXCEPT ![p] = LaunchEnv(environ, cmdenv[p])]
    /\ environ' = AmbientAfterLaunch(environ, cmdenv[p])
    /\ UNCHANGED cmdenv
    /\ UNCHANGED << exitcode, output, reaped, outOfOrder >>

\* ---- _perform_concurrently ----------------------------------------------

\* processes = [(command, _run_command(command, block=False)) ...]
Launch ==
    /\ pc = "launch"
    /\ i <= n
    /\ \/ /\ Started(i)
          /\ i' = i + 1
          /\ UNCHANGED << pc, raised, exit_status >>
       \/ /\ Uncaught("LaunchFailure", 1)
          /\ UNCHANGED << procs, launchSeq, i, envs >>
    /\ UNCHANGED << config, console, success, result, interrupted >>

\* success = True; try:
EnterTry ==
    /\ pc = "launch"
    /\ LaunchesDone(i, n)
    /\ success' = TRUE
    /\ pc' = "wait"
    /\ i' = 1
    /\ UNCHANGED << config, envs, procs, console, result, exit_status, raised,
                    interrupted, launchSeq >>

\* process.wait() blocks until the child has exited
Wait ==
    /\ pc = "wait"
    /\ i <= n
    /\ status[ProcessAt(i, n)] = "exited"
    /\ reaped' = [reaped EXCEPT ![ProcessAt(i, n)] = TRUE]
    /\ pc' = "tag"
    /\ UNCHANGED << config, envs, i, status, exitcode, output, outOfOrder, console,
                    success, result, exit_status, raised, interrupted,
                    launchSeq >>

\* if print_command and buffer_output: print(command.tag)
PrintTag ==
    /\ pc = "tag"
    /\ console' = IF PrintsTag(print_command, buffer_output)
                  THEN Append(console, << "tag", ProcessAt(i, n), <<>> >>)
                  ELSE console
    /\ pc' = "output"
    /\ UNCHANGED << config, envs, i, procs, success, result, exit_status, raised,
                    interrupted, launchSeq >>

\* stdout = process.communicate()[0]; if stdout: print(stdout.decode().strip())
PrintOutput ==
    /\ pc = "output"
    /\ console' = IF Captured /\ ShouldPrint(output[ProcessAt(i, n)],
                                              exitcode[ProcessAt(i, n)])
                  THEN Append(console, << "out", ProcessAt(i, n),
                                          Strip(output[ProcessAt(i, n)]) >>)
                  ELSE console
    /\ pc' = "fold"
    /\ UNCHANGED << config, envs, i, procs, success, result, exit_status, raised,
                    interrupted, launchSeq >>

\* if process.returncode != 0: success = False
FoldResult ==
    /\ pc = "fold"
    /\ success' = Fold(success, exitcode[ProcessAt(i, n)])
    /\ i' = i + 1
    /\ pc' = "wait"
    /\ UNCHANGED << config, envs, procs, console, result, exit_status, raised,
                    interrupted, launchSeq >>

\* the for loop is exhausted: return success
ConcurrentReturn ==
    /\ pc = "wait"
    /\ i > n
    /\ result' = success
    /\ pc' = "returned"
    /\ UNCHANGED << config, envs, i, procs, console, success, exit_status, raised,
                    interrupted, launchSeq >>

\* except KeyboardInterrupt: for command, process in processes: process.kill()
Kill ==
    /\ pc = "kill"
    /\ i <= n
    /\ IF status[i] = "pending"
       THEN UNCHANGED << status, exitcode >>
       ELSE /\ status' = [status EXCEPT ![i] = "exited"]
            /\ exitcode' = [exitcode EXCEPT ![i] =
                               KillCode(Alive(i), exitcode[i])]
    /\ pc' = "reap"
    /\ UNCHANGED << config, envs, i, output, reaped, outOfOrder, console, success,
                    result, exit_status, raised, interrupted, launchSeq >>

\* process.wait() in the handler
Reap ==
    /\ pc = "reap"
    /\ status[i] = "exited"
    /\ reaped' = [reaped EXCEPT ![i] = TRUE]
    /\ i' = i + 1
    /\ pc' = "kill"
    /\ UNCHANGED << config, envs, status, exitcode, output, outOfOrder, console,
                    success, result, exit_status, raised, interrupted,
                    launchSeq >>

\* success = False; return success
HandlerReturn ==
    /\ pc = "kill"
    /\ i > n
    /\ success' = FALSE
    /\ result' = FALSE
    /\ pc' = "returned"
    /\ UNCHANGED << config, envs, i, procs, console, exit_status, raised,
                    interrupted, launchSeq >>


\* ---- _perform_serially --------------------------------------------------

\* for command in commands: if print_command: print(command.tag)
SerialTag ==
    /\ pc = "stag"
    /\ i <= n
    /\ console' = IF print_command
                  THEN Append(console, << "tag", i, <<>> >>)
                  ELSE console
    /\ pc' = "slaunch"
    /\ UNCHANGED << config, envs, i, procs, success, result, exit_status, raised,
                    interrupted, launchSeq >>

\* _run_command(command, block=True): check_call starts the child
SerialLaunch ==
    /\ pc = "slaunch"
    /\ \/ /\ Started(i)
          /\ pc' = "srun"
          /\ UNCHANGED << raised, exit_status >>
       \/ /\ Uncaught("LaunchFailure", 1)
          /\ UNCHANGED << procs, launchSeq, envs >>
    /\ UNCHANGED << config, i, console, success, result, interrupted >>

\* check_call returns, or raises CalledProcessError on a non-zero exit
SerialWait ==
    /\ pc = "srun"
    /\ WaitReturns(status[i])
    /\ reaped' = [reaped EXCEPT ![i] = TRUE]
    /\ IF exitcode[i] = 0
       THEN /\ i' = NextIndex(i)
            /\ pc' = "stag"
            /\ UNCHANGED << success, result >>
       ELSE IF StopOnFailure(keep_going)
            THEN /\ result' = FALSE
                 /\ pc' = "returned"
                 /\ UNCHANGED << i, success >>
            ELSE /\ success' = RecordFailure(success)
                 /\ i' = NextIndex(i)
                 /\ pc' = "stag"
                 /\ UNCHANGED result
    /\ UNCHANGED << config, envs, status, exitcode, output, outOfOrder, console,
                    exit_status, raised, interrupted, launchSeq >>

\* the for loop is exhausted: return success
SerialReturn ==
    /\ pc = "stag"
    /\ i > n
    /\ result' = success
    /\ pc' = "returned"
    /\ UNCHANGED << config, envs, i, procs, console, success, exit_status, raised,
                    interrupted, launchSeq >>

\* ---- KeyboardInterrupt --------------------------------------------------

\* raised inside the try of _perform_concurrently: the handler starts
InterruptInTry ==
    /\ pc \in {"wait", "tag", "output", "fold"}
    /\ interrupted' = TRUE
    /\ pc' = "kill"
    /\ i' = 1
    /\ UNCHANGED << config, envs, procs, console, success, result, exit_status,
                    raised, launchSeq >>

\* raised inside the try of _perform_serially: subprocess.call kills and
\* reaps the child it is waiting on before the exception reaches the handler
InterruptInRun ==
    /\ pc \in {"slaunch", "srun"}
    /\ interrupted' = TRUE
    /\ IF pc = "srun"
       THEN /\ status' = [status EXCEPT ![i] = "exited"]
            /\ exitcode' = [exitcode EXCEPT ![i] =
                               IF Alive(i) THEN -9 ELSE exitcode[i]]
            /\ reaped' = [reaped EXCEPT ![i] = TRUE]
       ELSE UNCHANGED << status, exitcode, reaped >>
    /\ IF StopOnInterrupt(keep_going)
       THEN /\ result' = FALSE
            /\ pc' = "returned"
            /\ UNCHANGED << i, success >>
       ELSE /\ success' = FALSE
            /\ i' = i + 1
            /\ pc' = "stag"
            /\ UNCHANGED result
    /\ UNCHANGED << config, envs, output, outOfOrder, console, exit_status, raised,
                    launchSeq >>

\* raised where no handler is active: the launch phase, the handler's own
\* loop, the serial loop head, _main
InterruptUncaught ==
    /\ pc \in {"main", "launch", "kill", "reap", "stag", "returned"}
    /\ interrupted' = TRUE
    /\ \E st \in UncaughtInterruptStatus : Uncaught("KeyboardInterrupt", st)
    /\ UNCHANGED << config, envs, i, procs, console, success, result, launchSeq >>

\* ---- child processes ----------------------------------------------------

\* a child exits by itself, having written its output
ProcExit(p) ==
    /\ status[p] = "running"
    /\ status' = [status EXCEPT ![p] = "exited"]
    /\ \E c \in ExitCodes : exitcode' = [exitcode EXCEPT ![p] = c]
    /\ \E o \in (IF Captured THEN Outputs ELSE { <<>> }) :
           output' = [output EXCEPT ![p] = o]
    /\ outOfOrder' = (outOfOrder \/ \E q \in 1..(p - 1) : Alive(q))
    /\ UNCHANGED << config, envs, pc, i, reaped, console, success, result,
                    exit_status, raised, interrupted, launchSeq >>

\* a child whose output exceeds the pipe buffer blocks in write(): the pipe
\* is only read by communicate(), after wait()
ProcBlock(p) ==
    /\ Captured
    /\ status[p] = "running"
    /\ status' = [status EXCEPT ![p] = "blocked"]
    /\ UNCHANGED << config, envs, pc, i, exitcode, output, reaped, outOfOrder,
                    console, success, result, exit_status, raised,
                    interrupted, launchSeq >>

\* ---- specification ------------------------------------------------------
Next ==
    \/ Dispatch
    \/ SysExit
    \/ Launch
    \/ EnterTry
    \/ Wait
    \/ PrintTag
    \/ PrintOutput
    \/ FoldResult
    \/ ConcurrentReturn
    \/ Kill
    \/ Reap
    \/ HandlerReturn
    \/ SerialTag
    \/ SerialLaunch
    \/ SerialWait
    \/ SerialReturn
    \/ InterruptInTry
    \/ InterruptInRun
    \/ InterruptUncaught
    \/ \E p \in Cmds : ProcExit(p)
    \/ \E p \in Cmds : ProcBlock(p)

Spec == Init /\ [][Next]_vars

TypeOK ==
    /\ n \in 0..MaxCmds
    /\ pc \in {"main", "launch", "wait", "tag", "output", "fold", "kill",
               "reap", "stag", "slaunch", "srun", "returned", "exited"}
    /\ i \in 1..(n + 1)
    /\ \A p \in Cmds : status[p] \in {"pending", "running", "blocked", "exited"}
    /\ raised \in {"none", "LaunchFailure", "KeyboardInterrupt"}


\* ---- properties ---------------------------------------------------------

Finished == pc \in {"returned", "exited"}
AllExitedZero == \A p \in Cmds : status[p] = "exited" /\ exitcode[p] = 0
Printed(p) ==
    \E k \in 1..Len(console) : console[k] = << "out", p, Strip(output[p]) >>
Reported(p) ==
    /\ status[p] = "exited"
    /\ reaped[p]
    /\ (Captured /\ output[p] # <<>>) => Printed(p)

C2_FailureDoesNotStopWaits ==
    (Parallel(jobs) /\ pc = "returned"
       /\ \E p \in Cmds : status[p] = "exited" /\ exitcode[p] # 0)
        => /\ result = FALSE
           /\ ~interrupted => \A q \in Cmds : Reported(q)

C2_Witness ==
    /\ Parallel(jobs)
    /\ buffer_output
    /\ pc = "returned"
    /\ ~interrupted
    /\ n = 3
    /\ exitcode = << 0, 1, 0 >>
    /\ \A q \in Cmds : output[q] # <<>> /\ Reported(q)
    /\ result = FALSE

\* C3: in serial mode with keep_going false, once a command has been found to
\* have exited non-zero the scheduler has returned failure and no command
\* after it in input order has been launched.
C3_FirstFailureStops ==
    (~Parallel(jobs) /\ ~keep_going)
        => \A p \in Cmds :
              (reaped[p] /\ exitcode[p] # 0)
                 => /\ Finished
                    /\ result = FALSE
                    /\ \A q \in Cmds : q > p => status[q] = "pending"

C3_Witness ==
    /\ ~Parallel(jobs)
    /\ ~keep_going
    /\ ~interrupted
    /\ n = 3
    /\ pc = "exited"
    /\ launchSeq = << 1, 2 >>
    /\ reaped[1] /\ exitcode[1] = 0
    /\ reaped[2] /\ exitcode[2] = 1
    /\ status[3] = "pending"
    /\ exit_status = 1

\* C4: in serial mode with keep_going true, commands are launched once each
\* in input order, and when the scheduler returns without having been
\* interrupted every command of the batch has been launched, failures of
\* earlier commands notwithstanding.
C4_KeepGoingLaunchesAll ==
    (~Parallel(jobs) /\ keep_going)
        => /\ launchSeq = [k \in 1..Len(launchSeq) |-> k]
           /\ (pc = "returned" /\ ~interrupted) => Len(launchSeq) = n

C4_Witness ==
    /\ ~Parallel(jobs)
    /\ keep_going
    /\ ~interrupted
    /\ n = 3
    /\ pc = "returned"
    /\ launchSeq = << 1, 2, 3 >>
    /\ exitcode = << 1, 1, 0 >>
    /\ result = FALSE

\* C5: in concurrent mode the scheduler's printing and folding follow input
\* order whatever order the children exit in: console entries are ordered by
\* command index, and a command is reported only after every earlier command
\* has been waited on.
C5_ReportInLaunchOrder ==
    Parallel(jobs)
        => /\ \A a, b \in 1..Len(console) :
                 a < b => console[a][2] <= console[b][2]
           /\ \A a \in 1..Len(console) :
                 \A q \in 1..console[a][2] : reaped[q]
           /\ pc \in {"tag", "output", "fold"} => \A q \in 1..i : reaped[q]

C5_Witness ==
    /\ Parallel(jobs)
    /\ n = 2
    /\ outOfOrder
    /\ ~interrupted
    /\ pc = "returned"
    /\ print_command
    /\ Len(console) = 4
    /\ console[1][2] = 1
    /\ console[4][2] = 2


\* C6: once an interruption has been delivered in concurrent mode, the
\* orchestrator does not finish while a process it launched is still running,
\* and it finishes with a failed outcome.
C6_InterruptTerminatesAll ==
    (Parallel(jobs) /\ interrupted /\ Finished)
        => /\ \A p \in Cmds : ~Alive(p)
           /\ pc = "returned" => result = FALSE
           /\ pc = "exited" => exit_status # 0

\* C7: however a scheduling call ends (return, interruption, launch failure),
\* no process it launched is still running.
C7_NoHandleOutlivesCall ==
    Finished => \A p \in Cmds : ~Alive(p)

\* C8: a launch failure ends the batch with a failed outcome, and in
\* concurrent mode the commands launched before it are still waited on and
\* reported.
C8_LaunchFailureIsLocal ==
    (pc = "exited" /\ raised = "LaunchFailure")
        => /\ exit_status = 1
           /\ Parallel(jobs) =>
                 \A p \in Cmds : status[p] # "pending" => Reported(p)

\* C9: the orchestrator ends with exit status 0 when every command succeeded
\* and 1 otherwise, on every path: no other exit status occurs.
C9_ExitStatusZeroOrOne ==
    pc = "exited"
        => /\ exit_status \in {0, 1}
           /\ exit_status = 0 => result = TRUE

\* C10: in serial mode an interruption delivered while a command is being run
\* is caught by the scheduler, which returns failure at once without
\* launching any later command, whether keep_going is set or not.
C10_SerialInterruptStops ==
    (~Parallel(jobs) /\ interrupted /\ raised = "none")
        => /\ Finished
           /\ result = FALSE
           /\ \A q \in Cmds : q > i => status[q] = "pending"
           /\ \A q \in Cmds : ~Alive(q)

C10_Witness ==
    /\ ~Parallel(jobs)
    /\ keep_going
    /\ interrupted
    /\ n = 3
    /\ pc = "exited"
    /\ raised = "none"
    /\ exit_status = 1
    /\ launchSeq = << 1, 2 >>
    /\ exitcode[1] = 0
    /\ exitcode[2] = -9
    /\ status[3] = "pending"


ConcurrentPcs == {"launch", "wait", "tag", "output", "fold", "kill", "reap"}
SerialPcs == {"stag", "slaunch", "srun"}
InOrder(seq) == seq = [k \in 1..Len(seq) |-> k]

\* C11: in concurrent mode commands are launched once each in input order,
\* and whenever the scheduler is waiting on, reporting or has reaped any
\* process, every command of the batch has already been launched.
C11_LaunchAllBeforeWait ==
    Parallel(jobs)
        => /\ InOrder(launchSeq)
           /\ (pc \in (ConcurrentPcs \ {"launch"}) \/ \E p \in Cmds : reaped[p])
                 => Len(launchSeq) = n

C11_Witness ==
    /\ Parallel(jobs)
    /\ n = 3
    /\ pc = "wait"
    /\ i = 1
    /\ launchSeq = << 1, 2, 3 >>
    /\ \A p \in Cmds : ~reaped[p]
    /\ status[3] = "exited"
    /\ status[1] = "running"

\* C12: the concurrent scheduler runs exactly when jobs is 0 and the serial
\* one for every other value; buffer_output has no effect in serial mode (no
\* output is captured or printed), keep_going has none in concurrent mode
\* (an uninterrupted return has waited on every command), and the exit
\* status is 0 for a returned true and 1 for a returned false.
C12_DispatchOnJobs ==
    /\ pc \in ConcurrentPcs => jobs = 0
    /\ pc \in SerialPcs => jobs # 0
    /\ jobs # 0 =>
          /\ \A p \in Cmds : output[p] = <<>> /\ status[p] # "blocked"
          /\ \A k \in 1..Len(console) : console[k][1] = "tag"
    /\ (jobs = 0 /\ pc = "returned" /\ ~interrupted) =>
          \A p \in Cmds : reaped[p]
    /\ (pc = "exited" /\ raised = "none") =>
          exit_status = (IF result THEN 0 ELSE 1)

C12_Witness ==
    /\ jobs = 2
    /\ buffer_output
    /\ n = 2
    /\ pc = "exited"
    /\ raised = "none"
    /\ launchSeq = << 1, 2 >>
    /\ result = TRUE
    /\ exit_status = 0


\* C13 (as claimed): in concurrent mode with buffer_output, when the scheduler
\* returns every launched command that produced non-empty output has had it
\* printed, whatever happened to it or to the other commands.
C13_OutputAlwaysPrinted ==
    (Captured /\ pc = "returned")
        => \A p \in Cmds :
              (status[p] # "pending" /\ output[p] # <<>>) => Printed(p)

\* C13 (amended): in concurrent mode with buffer_output, when the scheduler
\* returns without having been interrupted, every command that produced
\* non-empty output has had it printed, stripped, whatever its exit code and
\* those of the other commands; and a command whose exit code is being
\* folded has already had its output printed.
C13_OutputPrintedUnlessInterrupted ==
    Captured
        => /\ (pc = "returned" /\ ~interrupted)
                 => \A p \in Cmds : output[p] # <<>> => Printed(p)
           /\ (pc = "fold" /\ output[ProcessAt(i, n)] # <<>>)
                 => Printed(ProcessAt(i, n))

C13_Witness ==
    /\ Captured
    /\ pc = "returned"
    /\ ~interrupted
    /\ n = 2
    /\ exitcode = << 1, 0 >>
    /\ output[1] = << " ", "a", " " >>
    /\ output[2] = << " " >>
    /\ Printed(1)
    /\ Printed(2)

\* C14: in concurrent mode a tag is printed only when print_command and
\* buffer_output are both set, only for a command that has exited and been
\* waited on, after every entry of earlier commands, and directly before that
\* command's output entry when it has one; every output entry then directly
\* follows its tag; with buffer_output false the scheduler prints nothing.
C14_TagBeforeOutput ==
    Parallel(jobs)
        => /\ ~buffer_output => console = <<>>
           /\ \A k \in 1..Len(console) :
                 console[k][1] = "tag"
                    => /\ print_command /\ buffer_output
                       /\ status[console[k][2]] = "exited"
                       /\ reaped[console[k][2]]
                       /\ \A j \in 1..(k - 1) : console[j][2] < console[k][2]
                       /\ \A q \in 1..(console[k][2] - 1) : Reported(q)
                       /\ k < Len(console)
                             => \/ console[k + 1] =
                                      << "out", console[k][2],
                                         Strip(output[console[k][2]]) >>
                                \/ /\ output[console[k][2]] = <<>>
                                   /\ console[k + 1][2] > console[k][2]
           /\ \A k \in 1..Len(console) :
                 (console[k][1] = "out" /\ print_command)
                    => /\ k > 1
                       /\ console[k - 1] = << "tag", console[k][2], <<>> >>

C14_Witness ==
    /\ Parallel(jobs)
    /\ print_command
    /\ buffer_output
    /\ n = 3
    /\ pc = "returned"
    /\ Len(console) = 5
    /\ console[1] = << "tag", 1, <<>> >>
    /\ console[2] = << "out", 1, << "a" >> >>
    /\ console[3] = << "tag", 2, <<>> >>
    /\ console[4] = << "tag", 3, <<>> >>
    /\ console[5] = << "out", 3, <<>> >>


\* C16: in serial mode with keep_going set, an uninterrupted return yields
\* false exactly when some command exited non-zero, after every command was
\* run; and inside the loop a recorded false never becomes true again.
C16_KeepGoingOutcome ==
    (~Parallel(jobs) /\ keep_going)
        => /\ (pc = "returned" /\ ~interrupted)
                 => /\ \A p \in Cmds : status[p] = "exited" /\ reaped[p]
                    /\ result = (\A p \in Cmds : exitcode[p] = 0)
           /\ pc \in SerialPcs
                 => success = (\A p \in Cmds : reaped[p] => exitcode[p] = 0)

C16_Witness ==
    /\ ~Parallel(jobs)
    /\ keep_going
    /\ ~interrupted
    /\ n = 3
    /\ pc = "returned"
    /\ exitcode = << 0, 1, 0 >>
    /\ \A p \in Cmds : reaped[p]
    /\ result = FALSE

\* C17: in the interruption handler of the concurrent scheduler, kill then
\* wait is applied to every handle; on a handle that has already exited the
\* kill step raises nothing and leaves its exit code as it was, and the wait
\* step changes no exit code; the handler returns only after every handle was
\* waited on.
C17_KillExitedIsNoOp ==
    /\ [][(pc = "kill" /\ pc' = "reap" /\ status[i] = "exited")
             => /\ exitcode'[i] = exitcode[i]
                /\ status'[i] = "exited"
                /\ raised' = "none"]_vars
    /\ [][(pc = "reap" /\ pc' = "kill")
             => /\ exitcode' = exitcode
                /\ reaped'[i]
                /\ raised' = "none"]_vars
    /\ []((Parallel(jobs) /\ interrupted /\ pc = "returned")
             => \A p \in Cmds : status[p] = "exited" /\ reaped[p])

C17_Witness ==
    /\ Parallel(jobs)
    /\ interrupted
    /\ n = 2
    /\ pc = "returned"
    /\ raised = "none"
    /\ exitcode = << 1, -9 >>
    /\ Len(console) > 0
    /\ console[1][2] = 1


\* Idle, Processing, Done of the scheduler, as a rank
Phase(at) == IF at = "main" THEN 0 ELSE IF at \in {"returned", "exited"} THEN 2 ELSE 1

\* C18: in serial mode a command's process only moves pending -> running ->
\* exited, an exited command keeps its exit code and is never started again,
\* the scheduler only moves forward through idle, processing, done, and the
\* commands that have left pending are always the prefix 1..k of the input,
\* launched in that order.
C18_Lifecycle ==
    /\ [][~Parallel(jobs) =>
            \A p \in Cmds :
               /\ status'[p] # status[p]
                     => << status[p], status'[p] >> \in
                           { << "pending", "running" >>,
                             << "running", "exited" >> }
               /\ status[p] = "exited" => exitcode'[p] = exitcode[p]]_vars
    /\ [][~Parallel(jobs) => Phase(pc') >= Phase(pc)]_vars
    /\ [](~Parallel(jobs) =>
            /\ InOrder(launchSeq)
            /\ \A p \in Cmds : status[p] # "pending" <=> p <= Len(launchSeq)
            /\ pc \in SerialPcs =>
                  Len(launchSeq) = (IF pc = "srun" THEN i ELSE i - 1))

C18_Witness ==
    /\ ~Parallel(jobs)
    /\ keep_going
    /\ ~print_command
    /\ n = 3
    /\ pc = "srun"
    /\ status = << "exited", "running", "pending" >>
    /\ reaped[1]
    /\ exitcode[1] = 1

\* C20: in serial mode at most one child is running at any time, a command
\* is launched only after its predecessor has exited and been waited on, and
\* with print_command the k-th line printed is the tag of command k, printed
\* after command k-1 has exited and before command k is launched.
C20_OneAtATime ==
    ~Parallel(jobs)
        => /\ Cardinality({ p \in Cmds : Alive(p) }) <= 1
           /\ \A p \in Cmds :
                 (p > 1 /\ status[p] # "pending")
                    => status[p - 1] = "exited" /\ reaped[p - 1]
           /\ ~print_command => console = <<>>
           /\ print_command =>
                 /\ \A k \in 1..Len(console) :
                       /\ console[k] = << "tag", k, <<>> >>
                       /\ \A q \in 1..(k - 1) :
                             status[q] = "exited" /\ reaped[q]
                 /\ \A p \in Cmds : status[p] # "pending" => Len(console) >= p
                 /\ pc = "slaunch" =>
                       Len(console) = i /\ status[i] = "pending"

C20_Witness ==
    /\ ~Parallel(jobs)
    /\ print_command
    /\ n = 3
    /\ pc = "srun"
    /\ status = << "exited", "running", "pending" >>
    /\ console = << << "tag", 1, <<>> >>, << "tag", 2, <<>> >> >>


\* ---- fairness -----------------------------------------------------------

\* the steps of the orchestrator itself: the interpreter keeps executing
Orchestrator ==
    \/ Dispatch
    \/ SysExit
    \/ Launch
    \/ EnterTry
    \/ Wait
    \/ PrintTag
    \/ PrintOutput
    \/ FoldResult
    \/ ConcurrentReturn
    \/ Kill
    \/ Reap
    \/ HandlerReturn
    \/ SerialTag
    \/ SerialLaunch
    \/ SerialWait
    \/ SerialReturn

\* the orchestrator keeps running, and a child that is not blocked in a
\* write terminates
FairSpec ==
    /\ Spec
    /\ WF_vars(Orchestrator)
    /\ \A p \in 1..MaxCmds : WF_vars(p \in Cmds /\ ProcExit(p))

\* C19: in concurrent mode with buffer_output the scheduler eventually
\* returns (or the program ends), given that every child that is not blocked
\* in a write terminates.
C19_EventuallyReturns ==
    Captured => <>Finished


\* ---- launches under every environment -----------------------------------

\* two commands in concurrent mode, every ambient environment and every
\* pair of command environments over EnvNames and EnvValues
EnvInit ==
    /\ n = 2
    /\ jobs = 0
    /\ print_command = FALSE
    /\ buffer_output = FALSE
    /\ keep_going = FALSE
    /\ pc = "main"
    /\ i = 1
    /\ status = [p \in Cmds |-> "pending"]
    /\ exitcode = [p \in Cmds |-> 0]
    /\ output = [p \in Cmds |-> <<>>]
    /\ reaped = [p \in Cmds |-> FALSE]
    /\ console = <<>>
    /\ success = FALSE
    /\ result = FALSE
    /\ exit_status = 0
    /\ raised = "none"
    /\ interrupted = FALSE
    /\ launchSeq = <<>>
    /\ outOfOrder = FALSE
    /\ environ \in EnvMaps
    /\ cmdenv \in [Cmds -> EnvMaps]
    /\ childenv = [p \in Cmds |-> NoEnv]

EnvNext ==
    \/ Dispatch
    \/ Launch

EnvSpec == EnvInit /\ [][EnvNext]_vars

Overlay(e, amb, over) ==
    /\ DOMAIN e = (DOMAIN amb) \cup (DOMAIN over)
    /\ \A k \in DOMAIN over : e[k] = over[k]
    /\ \A k \in (DOMAIN amb) \ (DOMAIN over) : e[k] = amb[k]

\* C15: every launched command was started with the ambient environment
\* overlaid with its own env (its keys win, every other ambient variable is
\* passed through), and no step changes the ambient environment or a
\* command's env.
C15_EnvOverlay ==
    /\ [](\A p \in Cmds :
             status[p] # "pending" => Overlay(childenv[p], environ, cmdenv[p]))
    /\ [][environ' = environ /\ cmdenv' = cmdenv]_vars

C15_Witness ==
    /\ launchSeq = << 1, 2 >>
    /\ environ = ("A" :> "x" @@ "B" :> "x")
    /\ cmdenv[1] = ("A" :> "y")
    /\ cmdenv[2] = ("B" :> "y")
    /\ childenv[1] = ("A" :> "y" @@ "B" :> "x")
    /\ childenv[2] = ("A" :> "x" @@ "B" :> "y")

====
